---- MODULE Spec2Model ----
(***************************************************************************)
(* Model of src/dashboard.py: a Streamlit page over two parquet tables     *)
(* (inventory snapshots, order records).  One run of the script is one     *)
(* step: the tables are loaded once (st.cache_data), a missing inventory   *)
(* table stops the script, and every change of a sidebar widget reruns     *)
(* the whole script on the widgets' current values.                        *)
(*                                                                         *)
(* A DataFrame is a record [type, columns, rows]; a row is a function   *)
(* from column names to values and carries its index label under "index".  *)
(* Dates are the integers 1..MaxDate, NaT is 0.  Identifiers are sequences *)
(* of one-character strings, so that str.strip() is computed.              *)
(***************************************************************************)
EXTENDS Integers, Sequences, FiniteSets, TLC

\* ---------------------------------------------------------------- bounds
MaxDate == 2
MaxInvRows == 2
MaxOrdRows == 2

\* ------------------------------------------------------------ value model
NaT == 0
Dates == 1..MaxDate

INVENTORY_FILE == "master_inventory_data.parquet"
ORDERS_FILE == "master_order_data.parquet"

\* Every value carries its type: a DataFrame, None, or a raised exception
None == [type |-> "NoneType"]

IsNone(v) == v.type = "NoneType"

\* pd.DataFrame(): no columns, no rows
EmptyDataFrame == [type |-> "DataFrame", columns |-> {}, rows |-> <<>>]

\* DataFrame.empty: some axis has length 0
IsEmpty(df) == df.columns = {} \/ Len(df.rows) = 0

\* df[col] == value: the boolean mask over the rows
ColEq(df, col, value) == [i \in DOMAIN df.rows |-> df.rows[i][col] = value]

RECURSIVE Masked(_, _)
Masked(rows, mask) ==
    IF rows = <<>> THEN <<>>
    ELSE LET n == Len(rows)
             rest == Masked(SubSeq(rows, 1, n - 1), mask)
         IN IF mask[n] THEN Append(rest, rows[n]) ELSE rest

\* df[mask]: the rows for which the mask holds, in order, index labels kept
Where(df, mask) ==
    [type |-> "DataFrame", columns |-> df.columns, rows |-> Masked(df.rows, mask)]

\* df[col] on a frame that has no such column raises KeyError
HasColumn(df, col) == col \in df.columns

\* str.strip(): leading and trailing blanks removed
RECURSIVE LStrip(_)
LStrip(s) == IF s # <<>> /\ Head(s) = " " THEN LStrip(Tail(s)) ELSE s

RECURSIVE RStrip(_)
RStrip(s) ==
    IF s # <<>> /\ s[Len(s)] = " " THEN RStrip(SubSeq(s, 1, Len(s) - 1)) ELSE s

Strip(s) == RStrip(LStrip(s))

\* pd.read_parquet: the file's rows under a RangeIndex; FileNotFoundError
\* when the file is absent
ReadParquet(file, cols) ==
    [type |-> "DataFrame", columns |-> cols,
     rows |-> [i \in 1..Len(file.rows) |-> file.rows[i] @@ ("index" :> i - 1)]]

InventoryColumns ==
    {"asin", "sku", "product-name", "Date", "Region",
     "Fulfillable Quantity", "Reserved", "Inbound"}

OrderColumns ==
    {"asin", "sku", "Order ID", "Order Date", "Dispatch Date", "Quantity",
     "Target_Region", "Warehouse", "Channel Name"}

load_data(inventory, orders) ==
    [inv |-> IF inventory.exists THEN ReadParquet(inventory, InventoryColumns)
             ELSE None,
     orders |-> IF orders.exists THEN ReadParquet(orders, OrderColumns)
                ELSE None]

\* ------------------------------------------------------- pandas helpers
\* df[col] as a list of values, in row order
Column(rows, col) == [i \in 1..Len(rows) |-> rows[i][col]]

\* a raised exception, shown by Streamlit in place of the rest of the page
KeyError(col) == [type |-> "exception", error |-> "KeyError", key |-> col]

IsException(v) == v.type = "exception"

\* groupby(by, dropna=False): the null key forms a group too
GroupKeys_keepNull(df, by) == {df.rows[i][by] : i \in 1..Len(df.rows)}

\* the group keys of groupby(by): the distinct values of the column; rows
\* whose key is null form no group (dropna=True is the default)
GroupKeys(df, by) == {df.rows[i][by] : i \in 1..Len(df.rows)} \ {NaT}

\* groupby(by)['Quantity'].count() in place of sum(): the rows are counted
RECURSIVE SumWhere_count(_, _, _)
SumWhere_count(rows, by, key) ==
    IF rows = <<>> THEN 0
    ELSE (IF Head(rows)[by] = key THEN 1 ELSE 0)
         + SumWhere_count(Tail(rows), by, key)

\* the Quantity of the rows whose key is `key`, added up in row order
RECURSIVE SumWhere(_, _, _)
SumWhere(rows, by, key) ==
    IF rows = <<>> THEN 0
    ELSE (IF Head(rows)[by] = key THEN Head(rows)["Quantity"] ELSE 0)
         + SumWhere(Tail(rows), by, key)

\* groupby sorts the group keys ascending (sort=True is the default)
RECURSIVE Ascending(_)
Ascending(S) ==
    IF S = {} THEN <<>>
    ELSE LET m == CHOOSE x \in S : \A y \in S : x <= y
         IN <<m>> \o Ascending(S \ {m})

\* df.groupby(by)['Quantity'].sum().reset_index(): one row per key
GroupBySum(df, by) ==
    LET keys == Ascending(GroupKeys(df, by))
    IN [i \in 1..Len(keys) |->
            (by :> keys[i]) @@ ("Quantity" :> SumWhere(df.rows, by, keys[i]))]

\* sort_values(by, ascending=False): pandas reverses, sorts ascending and
\* reverses back, so rows with equal keys keep their order
RECURSIVE InsertDesc(_, _, _)
InsertDesc(sorted, r, by) ==
    IF sorted = <<>> THEN <<r>>
    ELSE IF Head(sorted)[by] >= r[by]
         THEN <<Head(sorted)>> \o InsertDesc(Tail(sorted), r, by)
         ELSE <<r>> \o sorted

\* the listing left in table order
SortValuesDesc_unsorted(rows, by) == rows

RECURSIVE SortValuesDesc(_, _)
SortValuesDesc(rows, by) ==
    IF rows = <<>> THEN <<>>
    ELSE InsertDesc(SortValuesDesc(SubSeq(rows, 1, Len(rows) - 1), by),
                    rows[Len(rows)], by)

\* tbl[display_cols]: the listed columns only (the index label is hidden)
Project(rows, cols) ==
    [i \in 1..Len(rows) |->
        [c \in {cols[k] : k \in 1..Len(cols)} |-> rows[i][c]]]

\* a comparison with NaT is False
DateInRange(d, start, end) == d # NaT /\ d >= start /\ d <= end

\* (df[col] >= start_date) & (df[col] <= end_date)
ColInRange(df, col, start, end) ==
    [i \in DOMAIN df.rows |-> DateInRange(df.rows[i][col], start, end)]

\* ------------------------------------------------------ create_combo_chart
Scatter(inv_data, col, name, color) ==
    [type |-> "scatter", name |-> name, color |-> color, connectgaps |-> TRUE,
     x |-> Column(inv_data.rows, "Date"), y |-> Column(inv_data.rows, col)]

Bar(series, by, name, color) ==
    [type |-> "bar", name |-> name, color |-> color,
     x |-> Column(series, by), y |-> Column(series, "Quantity")]

InventoryLines(inv_data) ==
    << Scatter(inv_data, "Fulfillable Quantity", "Available", "green"),
       Scatter(inv_data, "Reserved", "Reserved", "orange"),
       Scatter(inv_data, "Inbound", "Inbound", "blue") >>

\* 1. Dawson Orders (Common to both)
DawsonBars(ord_data) ==
    LET dawson == Where(ord_data, ColEq(ord_data, "Warehouse", "Dawson"))
    IN IF ~IsEmpty(dawson)
       THEN << Bar(GroupBySum(dawson, "Order Date"), "Order Date",
                   "Order Placed (Dawson)", "#DE73E7"),
               Bar(GroupBySum(dawson, "Dispatch Date"), "Dispatch Date",
                   "Dispatched (Dawson)", "#E4270E") >>
       ELSE <<>>

\* the Romania bars drawn without looking at is_eu
RomaniaBars_always(ord_data, is_eu) ==
    LET romania == Where(ord_data, ColEq(ord_data, "Warehouse", "Romania"))
    IN IF ~IsEmpty(romania)
       THEN << Bar(GroupBySum(romania, "Order Date"), "Order Date",
                   "Order Placed (RO)", "#66F559"),
               Bar(GroupBySum(romania, "Dispatch Date"), "Dispatch Date",
                   "Dispatched (RO)", "#096E11") >>
       ELSE <<>>

\* 2. Romania Orders (EU Only)
RomaniaBars(ord_data, is_eu) ==
    IF is_eu
    THEN LET romania == Where(ord_data, ColEq(ord_data, "Warehouse", "Romania"))
         IN IF ~IsEmpty(romania)
            THEN << Bar(GroupBySum(romania, "Order Date"), "Order Date",
                        "Order Placed (RO)", "#66F559"),
                    Bar(GroupBySum(romania, "Dispatch Date"), "Dispatch Date",
                        "Dispatched (RO)", "#096E11") >>
            ELSE <<>>
    ELSE <<>>

\* B. ORDER BARS (Overlay): skipped for an empty frame
OrderBars(ord_data, is_eu) ==
    IF ~IsEmpty(ord_data)
    THEN DawsonBars(ord_data) \o RomaniaBars(ord_data, is_eu)
    ELSE <<>>

\* the bars aggregated over the orders placed in the selected range only
create_combo_chart_windowed(inv_data, ord_data, title, is_eu, start, end) ==
    IF ~IsEmpty(ord_data) /\ ~HasColumn(ord_data, "Warehouse")
    THEN KeyError("Warehouse")
    ELSE [type |-> "figure", title |-> title,
          data |-> InventoryLines(inv_data) \o
                   OrderBars(Where(ord_data,
                                   ColInRange(ord_data, "Order Date", start, end)),
                             is_eu),
          barmode |-> "group", xaxis_range |-> <<start, end>>]

\* ord_data['Warehouse'] raises KeyError on a frame without that column; it
\* is evaluated only for a frame that is not empty
create_combo_chart(inv_data, ord_data, title, is_eu, start, end) ==
    IF ~IsEmpty(ord_data) /\ ~HasColumn(ord_data, "Warehouse")
    THEN KeyError("Warehouse")
    ELSE [type |-> "figure", title |-> title,
          data |-> InventoryLines(inv_data) \o OrderBars(ord_data, is_eu),
          barmode |-> "group", xaxis_range |-> <<start, end>>]

\* ------------------------------------------------------------ main logic
Element(type, container, body) ==
    [type |-> type, container |-> container, body |-> body]

\* the inventory filtered by identifier only
FilterInventory_asinOnly(df_inv, target, start, end) ==
    Where(df_inv, ColEq(df_inv, "asin", target))

\* 1. Filter Inventory: the identifier's rows dated within the selected range
FilterInventory(df_inv, target, start, end) ==
    LET asin_inv == Where(df_inv, ColEq(df_inv, "asin", target))
    IN Where(asin_inv, ColInRange(asin_inv, "Date", start, end))

\* 2. Filter Orders (if file exists): the identifier's whole order history
FilterOrders(df_ord, target) ==
    IF ~IsNone(df_ord)
    THEN Where(df_ord, ColEq(df_ord, "asin", target))
    ELSE EmptyDataFrame

\* latest = asin_inv_filtered.iloc[-1]
Latest(asin_inv_filtered) ==
    asin_inv_filtered.rows[Len(asin_inv_filtered.rows)] @@ [type |-> "Series"]

\* both subsets taken with the UK test
RegionInventory_copyPaste(asin_inv_filtered, region) ==
    Where(asin_inv_filtered, ColEq(asin_inv_filtered, "Region", "UK"))

\* inv_uk / inv_eu
RegionInventory(asin_inv_filtered, region) ==
    Where(asin_inv_filtered, ColEq(asin_inv_filtered, "Region", region))

\* the region filter applied without the emptiness test
RegionOrders_unguarded(asin_orders, region) ==
    IF HasColumn(asin_orders, "Target_Region")
    THEN Where(asin_orders, ColEq(asin_orders, "Target_Region", region))
    ELSE KeyError("Target_Region")

\* ord_uk / ord_eu: the identifier's orders of one Target_Region; an empty
\* frame (no orders table, or no order of the identifier) gives pd.DataFrame()
RegionOrders(asin_orders, region) ==
    IF ~IsEmpty(asin_orders)
    THEN IF HasColumn(asin_orders, "Target_Region")
         THEN Where(asin_orders, ColEq(asin_orders, "Target_Region", region))
         ELSE KeyError("Target_Region")
    ELSE EmptyDataFrame

display_cols ==
    <<"Order ID", "sku", "Order Date", "Quantity", "Channel Name", "Dispatch Date">>

\* one column of the order tables: the region's orders placed in the selected
\* range, newest first, or a notice when the region has no order at all
OrdersTable(ord_region, container, notice, start, end) ==
    IF ~IsEmpty(ord_region)
    THEN LET tbl == Where(ord_region,
                          ColInRange(ord_region, "Order Date", start, end))
         IN IF \E k \in 1..Len(display_cols) : ~HasColumn(tbl, display_cols[k])
            THEN KeyError("display_cols")
            ELSE Element("dataframe", container,
                         [type |-> "DataFrame",
                          columns |-> {display_cols[k] : k \in 1..Len(display_cols)},
                          rows |-> SortValuesDesc(Project(tbl.rows, display_cols),
                                                  "Order Date")])
    ELSE Element("info", container, notice)

NoLocals ==
    [asin_inv_filtered |-> None, asin_orders |-> None, latest |-> None,
     inv_uk |-> None, inv_eu |-> None, ord_uk |-> None, ord_eu |-> None]

UKTitle == "UK Inventory & Orders"
EUTitle == "EU Inventory & Orders (Dawson + Romania)"

\* the elements from the first chart on; an exception ends the run
Visualization(inv_uk, inv_eu, ord_uk, ord_eu, start, end) ==
    LET fig_uk == create_combo_chart(inv_uk, ord_uk, UKTitle, FALSE, start, end)
        fig_eu == create_combo_chart(inv_eu, ord_eu, EUTitle, TRUE, start, end)
        tbl_uk == OrdersTable(ord_uk, "col1", "No UK Orders found.", start, end)
        tbl_eu == OrdersTable(ord_eu, "col2", "No EU Orders found.", start, end)
    IN <<Element("subheader", "main", "UK Overview")>> \o
       IF IsException(fig_uk) THEN <<fig_uk>>
       ELSE <<Element("plotly_chart", "main", fig_uk),
              Element("subheader", "main", "EU Overview")>> \o
            IF IsException(fig_eu) THEN <<fig_eu>>
            ELSE <<Element("plotly_chart", "main", fig_eu),
                   Element("divider", "main", ""),
                   Element("subheader", "main", "Order History Details"),
                   Element("write", "col1", "UK Orders")>> \o
                 IF IsException(tbl_uk) THEN <<tbl_uk>>
                 ELSE <<tbl_uk, Element("write", "col2", "EU Orders"), tbl_eu>>

\* the script below the sidebar on the widgets' values: the page it renders
\* and the variables it leaves
MainLogic(df_inv, df_ord, start, end, target) ==
    LET title == <<Element("title", "main", "Inventory & Order History")>>
    IN
    IF target # <<>>
    THEN
      LET asin_inv_filtered == FilterInventory(df_inv, target, start, end)
          asin_orders == FilterOrders(df_ord, target)
      IN
      IF IsEmpty(asin_inv_filtered)
      THEN [page |-> title \o <<Element("warning", "main",
                                        [message |-> "No Inventory data found",
                                         asin |-> target])>>,
            locals |-> [NoLocals EXCEPT !.asin_inv_filtered = asin_inv_filtered,
                                        !.asin_orders = asin_orders]]
      ELSE
        LET latest == Latest(asin_inv_filtered)
            header ==
              <<Element("write", "main",
                        [product |-> latest["product-name"], sku |-> latest["sku"]]),
                Element("markdown", "main", [searchTerm |-> target])>>
            inv_uk == RegionInventory(asin_inv_filtered, "UK")
            inv_eu == RegionInventory(asin_inv_filtered, "EU")
            ord_uk == RegionOrders(asin_orders, "UK")
            ord_eu == RegionOrders(asin_orders, "EU")
        IN [page |-> title \o header \o
                     IF IsException(ord_uk) THEN <<ord_uk>>
                     ELSE IF IsException(ord_eu) THEN <<ord_eu>>
                     ELSE Visualization(inv_uk, inv_eu, ord_uk, ord_eu, start, end),
            locals |-> [asin_inv_filtered |-> asin_inv_filtered,
                        asin_orders |-> asin_orders, latest |-> latest,
                        inv_uk |-> inv_uk, inv_eu |-> inv_eu,
                        ord_uk |-> ord_uk, ord_eu |-> ord_eu]]
    ELSE [page |-> title \o <<Element("info", "main",
                                      "Please enter an ASIN in the sidebar.")>>,
          locals |-> NoLocals]

\* ------------------------------------------------------------------ state
VARIABLES
    inventory_file,   \* master_inventory_data.parquet: [exists, rows]
    orders_file,      \* master_order_data.parquet: [exists, rows]
    status,           \* "start" | "running" | "stopped" (st.stop)
    data_store,       \* what load_data returned (cached)
    start_date,       \* the Start Date widget
    end_date,         \* the End Date widget
    target_asin,      \* the Enter ASIN widget's text, stripped
    page,             \* the elements the last run put on the page
    locals            \* the last run's variables

vars == <<inventory_file, orders_file, status, data_store, start_date,
          end_date, target_asin, page, locals>>

\* ----------------------------------------------------------------- inputs
\* The two tables follow the schema of the data model: an inventory row's
\* Region is UK or EU and its Date is a date; an order row's Target_Region is
\* UK or EU, its Order Date is a date and its Dispatch Date a date or null.
\* Neither the order of the rows nor their uniqueness is assumed.  The
\* inventory table, when present, has at least one row.
Missing == [exists |-> FALSE, rows |-> <<>>]

File(rows) == [exists |-> TRUE, rows |-> rows]

RECURSIVE SeqsUpTo(_, _)
SeqsUpTo(S, n) ==
    IF n = 0 THEN {<<>>}
    ELSE LET shorter == SeqsUpTo(S, n - 1)
         IN shorter \cup
            {Append(q, x) : q \in {p \in shorter : Len(p) = n - 1}, x \in S}

ASINs == {<<"A">>, <<"B">>}

\* what the operator types into the Enter ASIN box
TextInputs == {<<>>, <<" ">>, <<"A">>, <<" ", "B", " ">>}

InventoryRow(asin, date, region) ==
    [asin |-> asin, sku |-> "SKU-1", Date |-> date, Region |-> region,
     Reserved |-> 1, Inbound |-> 2]
    @@ ("product-name" :> "Widget") @@ ("Fulfillable Quantity" :> 10)

InventoryRows ==
    {InventoryRow(a, d, r) : a \in ASINs, d \in Dates, r \in {"UK", "EU"}}

InventoryFiles ==
    {Missing} \cup {File(q) : q \in SeqsUpTo(InventoryRows, MaxInvRows) \ {<<>>}}

OrderRow(asin, order_date, dispatch_date, quantity, target_region, warehouse) ==
    [asin |-> asin, sku |-> "SKU-1", Quantity |-> quantity,
     Target_Region |-> target_region, Warehouse |-> warehouse]
    @@ ("Order Date" :> order_date) @@ ("Dispatch Date" :> dispatch_date)
    @@ ("Channel Name" :> "Amazon")

\* Order ID: unique per row
WithOrderIds(q) == [i \in 1..Len(q) |-> q[i] @@ ("Order ID" :> 100 + i)]

OrderFilesOver(rows) ==
    {Missing} \cup {File(WithOrderIds(q)) : q \in SeqsUpTo(rows, MaxOrdRows)}

\* an orders table with orders of both identifiers, regions and warehouses
SomeOrders ==
    File(WithOrderIds(<< OrderRow(<<"A">>, 1, NaT, 2, "UK", "Dawson"),
                         OrderRow(<<"B">>, MaxDate, MaxDate, 1, "EU", "Romania"),
                         OrderRow(<<"B">>, 1, 1, 1, "UK", "Dawson") >>))

\* an inventory table of identifier A with a row on the first and the last date
SomeInventory ==
    File(<< InventoryRow(<<"A">>, 1, "UK"), InventoryRow(<<"A">>, MaxDate, "EU") >>)

Routes == {<<"UK", "Dawson">>, <<"UK", "Romania">>, <<"EU", "Dawson">>, <<"EU", "Romania">>}

\* orders that differ in order date, destination region and warehouse, each
\* dispatched on the day it was placed
RoutedOrderRows ==
    {OrderRow(<<"A">>, od, od, 1, rt[1], rt[2]) : od \in Dates, rt \in Routes}

\* orders that differ in order date and quantity, none dispatched yet
PlacedOrderRows ==
    {OrderRow(<<"A">>, od, NaT, q, rt[1], rt[2]) :
        od \in Dates, q \in {1, 2}, rt \in Routes \ {<<"UK", "Romania">>}}

\* orders placed on the first date that differ in dispatch date (null or a
\* date) and quantity
DispatchedOrderRows ==
    {OrderRow(<<"A">>, 1, dd, q, rt[1], rt[2]) :
        dd \in {NaT} \cup Dates, q \in {1, 2},
        rt \in {<<"UK", "Dawson">>, <<"EU", "Romania">>}}

\* ---------------------------------------------------------------- actions
InitWith(inventories, orders) ==
    /\ inventory_file \in inventories
    /\ orders_file \in orders
    /\ status = "start"
    /\ data_store = [inv |-> None, orders |-> None]
    /\ start_date = NaT
    /\ end_date = NaT
    /\ target_asin = <<>>
    /\ page = <<>>
    /\ locals = NoLocals

\* df_inv['Date'].min()
MinDate(df_inv) ==
    LET ds == {df_inv.rows[i]["Date"] : i \in 1..Len(df_inv.rows)} \ {NaT}
    IN CHOOSE d \in ds : \A e \in ds : d <= e

\* one run of the script from the widgets' values
Rerun(start, end, text) ==
    LET target == Strip(text)
        run == MainLogic(data_store.inv, data_store.orders, start, end, target)
    IN /\ start_date' = start
       /\ end_date' = end
       /\ target_asin' = target
       /\ page' = run.page
       /\ locals' = run.locals
       /\ UNCHANGED <<inventory_file, orders_file, status, data_store>>

\* the first run: load_data reads the two files; without the inventory table
\* the script shows an error and stops; otherwise the widgets take their
\* defaults (Start = earliest inventory date, End = today, ASIN = "")
LoadData ==
    /\ status = "start"
    /\ LET data == load_data(inventory_file, orders_file)
       IN /\ data_store' = data
          /\ IF IsNone(data.inv)
             THEN /\ status' = "stopped"
                  /\ page' = <<Element("error", "main", INVENTORY_FILE)>>
                  /\ UNCHANGED <<start_date, end_date, target_asin, locals>>
             ELSE /\ status' = "running"
                  /\ \E today \in Dates :
                        LET run == MainLogic(data.inv, data.orders,
                                             MinDate(data.inv), today, Strip(<<>>))
                        IN /\ start_date' = MinDate(data.inv)
                           /\ end_date' = today
                           /\ target_asin' = Strip(<<>>)
                           /\ page' = run.page
                           /\ locals' = run.locals
    /\ UNCHANGED <<inventory_file, orders_file>>

\* the operator picks another Start Date
SetStartDate ==
    /\ status = "running"
    /\ \E d \in Dates : d # start_date /\ Rerun(d, end_date, target_asin)

\* the operator picks another End Date
SetEndDate ==
    /\ status = "running"
    /\ \E d \in Dates : d # end_date /\ Rerun(start_date, d, target_asin)

\* the operator submits the Enter ASIN box
EnterASIN ==
    /\ status = "running"
    /\ \E text \in TextInputs : Rerun(start_date, end_date, text)

Next == LoadData \/ SetStartDate \/ SetEndDate \/ EnterASIN

\* every inventory table, without an orders table or with a filled one
Init == InitWith(InventoryFiles, {Missing, SomeOrders})

Spec == Init /\ [][Next]_vars

InitRoute == InitWith({Missing, SomeInventory}, OrderFilesOver(RoutedOrderRows))

SpecRoute == InitRoute /\ [][Next]_vars

InitPlaced == InitWith({Missing, SomeInventory}, OrderFilesOver(PlacedOrderRows))

SpecPlaced == InitPlaced /\ [][Next]_vars

InitDispatched ==
    InitWith({Missing, SomeInventory}, OrderFilesOver(DispatchedOrderRows))

SpecDispatched == InitDispatched /\ [][Next]_vars

\* ------------------------------------------------------- reading a page
Shows(pg, type) == \E i \in DOMAIN pg : pg[i].type = type

HasFig(pg, title) ==
    \E i \in DOMAIN pg : pg[i].type = "plotly_chart" /\ pg[i].body.title = title

FigOf(pg, title) ==
    pg[CHOOSE i \in DOMAIN pg :
            pg[i].type = "plotly_chart" /\ pg[i].body.title = title].body

BarsOf(fig) == SelectSeq(fig.data, LAMBDA t : t.type = "bar")

HasTrace(fig, name) == \E k \in DOMAIN fig.data : fig.data[k].name = name

TraceOf(fig, name) == fig.data[CHOOSE k \in DOMAIN fig.data : fig.data[k].name = name]

HasListing(pg, container) ==
    \E i \in DOMAIN pg : pg[i].type = "dataframe" /\ pg[i].container = container

ListingOf(pg, container) ==
    pg[CHOOSE i \in DOMAIN pg :
            pg[i].type = "dataframe" /\ pg[i].container = container].body

\* the charts are on the page
Rendered == Shows(page, "plotly_chart")

\* ----------------------------------------------- the tables, read directly
\* the positions of the inventory file's rows of the target identifier
InventoryOfTarget ==
    {i \in DOMAIN inventory_file.rows : inventory_file.rows[i]["asin"] = target_asin}

\* ... dated within [start_date, end_date]
InventoryInWindow ==
    {i \in InventoryOfTarget :
        /\ inventory_file.rows[i]["Date"] >= start_date
        /\ inventory_file.rows[i]["Date"] <= end_date}

\* the positions of the orders file's rows of the target identifier
OrdersOfTarget ==
    {i \in DOMAIN orders_file.rows : orders_file.rows[i]["asin"] = target_asin}

\* a query: the script ran on a non-empty identifier
Queried == status = "running" /\ target_asin # <<>>

\* ------------------------------------------------------------------ C1
\* C1: a query whose identifier has no inventory row dated within
\* [start_date, end_date] (in particular an identifier with no inventory row
\* at all) shows the "no inventory data" warning and no chart, whatever
\* orders the identifier has.
C1_NoInventoryNoChart ==
    (Queried /\ InventoryInWindow = {}) =>
        /\ Shows(page, "warning")
        /\ ~Shows(page, "plotly_chart")
        /\ ~Shows(page, "dataframe")
        /\ ~Shows(page, "exception")

\* an identifier without any inventory row but with orders gets the warning
C1_Witness ==
    /\ Queried
    /\ InventoryOfTarget = {}
    /\ OrdersOfTarget # {}
    /\ Shows(page, "warning")

\* ------------------------------------------------------------------ C2
CountIndex(df, idx) ==
    Cardinality({k \in DOMAIN df.rows : df.rows[k]["index"] = idx})

\* C2: when the filtered inventory set is not empty, every one of its rows is
\* in exactly one of inv_uk and inv_eu, and the two hold nothing else.
C2_RegionsPartition ==
    (Queried /\ InventoryInWindow # {}) =>
        /\ {locals.asin_inv_filtered.rows[k]["index"] :
                k \in DOMAIN locals.asin_inv_filtered.rows}
           = {i - 1 : i \in InventoryInWindow}
        /\ \A i \in InventoryInWindow :
              CountIndex(locals.inv_uk, i - 1) + CountIndex(locals.inv_eu, i - 1) = 1
        /\ Len(locals.inv_uk.rows) + Len(locals.inv_eu.rows)
           = Cardinality(InventoryInWindow)

\* a filtered set with rows of both regions
C2_Witness ==
    /\ Queried
    /\ Cardinality(InventoryInWindow) >= 2
    /\ Rendered
    /\ Len(locals.inv_uk.rows) >= 1
    /\ Len(locals.inv_eu.rows) >= 1

\* ------------------------------------------------------------------ C6
\* the target's inventory rows of one region dated within the range, in file order
RegionRowsInWindow(region) ==
    SelectSeq(inventory_file.rows,
              LAMBDA r : /\ r["asin"] = target_asin
                         /\ r["Region"] = region
                         /\ r["Date"] >= start_date
                         /\ r["Date"] <= end_date)

\* the figure holds the three inventory lines of the region and nothing else
OnlyInventoryLines(fig, region) ==
    LET rows == RegionRowsInWindow(region)
    IN /\ Len(fig.data) = 3
       /\ [k \in 1..3 |-> fig.data[k].name] = <<"Available", "Reserved", "Inbound">>
       /\ \A k \in 1..3 : /\ fig.data[k].type = "scatter"
                          /\ fig.data[k].x = Column(rows, "Date")
       /\ fig.data[1].y = Column(rows, "Fulfillable Quantity")
       /\ fig.data[2].y = Column(rows, "Reserved")
       /\ fig.data[3].y = Column(rows, "Inbound")

\* C6: the run stops, with the missing-file error and before any query,
\* exactly when the inventory table is absent; without the orders table the
\* script never stops or fails, and a query with inventory in the range
\* shows both charts with the three inventory lines and no bar.
C6_OnlyMissingInventoryHalts ==
    /\ (status = "stopped") <=> (status # "start" /\ ~inventory_file.exists)
    /\ status = "stopped" =>
          /\ page = <<Element("error", "main", INVENTORY_FILE)>>
          /\ locals = NoLocals
          /\ target_asin = <<>>
    /\ (status = "running" /\ ~orders_file.exists) =>
          /\ ~Shows(page, "exception")
          /\ ~Shows(page, "error")
          /\ (target_asin # <<>> /\ InventoryInWindow # {}) =>
                /\ HasFig(page, UKTitle)
                /\ HasFig(page, EUTitle)
                /\ OnlyInventoryLines(FigOf(page, UKTitle), "UK")
                /\ OnlyInventoryLines(FigOf(page, EUTitle), "EU")
                /\ page[Len(page)] = Element("info", "col2", "No EU Orders found.")

\* a query answered with both charts while the orders table is absent
C6_Witness ==
    /\ Queried
    /\ ~orders_file.exists
    /\ HasFig(page, UKTitle)
    /\ HasFig(page, EUTitle)
    /\ Len(FigOf(page, UKTitle).data[1].x) >= 1

\* ------------------------------------------------------------------ C10
\* C10: the row the header is taken from has the greatest Date among the
\* filtered inventory rows, whatever the order of the inventory table's rows.
C10_HeaderFromMostRecentRow ==
    (Queried /\ InventoryInWindow # {}) =>
        \A i \in InventoryInWindow :
            inventory_file.rows[i]["Date"] <= locals.latest["Date"]

\* ------------------------------------------------ orders, read directly
\* the positions of the target's orders of one destination region
OrdersOfRegion(region) ==
    {i \in OrdersOfTarget : orders_file.rows[i]["Target_Region"] = region}

\* ... shipped from one warehouse
OrdersOfWarehouse(region, warehouse) ==
    {i \in OrdersOfRegion(region) : orders_file.rows[i]["Warehouse"] = warehouse}

\* the Quantity of the orders at the positions S, added up
RECURSIVE QuantityOver(_)
QuantityOver(S) ==
    IF S = {} THEN 0
    ELSE LET i == CHOOSE j \in S : TRUE
         IN orders_file.rows[i]["Quantity"] + QuantityOver(S \ {i})

RECURSIVE Total(_)
Total(ys) == IF ys = <<>> THEN 0 ELSE Head(ys) + Total(Tail(ys))

StrictlyAscending(xs) == \A k \in 1..(Len(xs) - 1) : xs[k] < xs[k + 1]

TitleOf(region) == IF region = "UK" THEN UKTitle ELSE EUTitle

ContainerOf(region) == IF region = "UK" THEN "col1" ELSE "col2"

\* the warehouse subsets that are charted: Dawson in both regions, Romania in EU
ChartedSubsets == {<<"UK", "Dawson">>, <<"EU", "Dawson">>, <<"EU", "Romania">>}

PlacedName(warehouse) ==
    IF warehouse = "Dawson" THEN "Order Placed (Dawson)" ELSE "Order Placed (RO)"

DispatchedName(warehouse) ==
    IF warehouse = "Dawson" THEN "Dispatched (Dawson)" ELSE "Dispatched (RO)"

\* the trace `name` of the region's chart is the sum of Quantity grouped by the
\* column `by` over the rows S whose `by` is not null: one bar per date,
\* dates ascending, and it is absent exactly when S is empty
IsGroupedSum(region, name, S, by) ==
    LET fig == FigOf(page, TitleOf(region))
        dated == {i \in S : orders_file.rows[i][by] # NaT}
    IN IF S = {} THEN ~HasTrace(fig, name)
       ELSE /\ HasTrace(fig, name)
            /\ LET t == TraceOf(fig, name)
               IN /\ t.type = "bar"
                  /\ Len(t.x) = Len(t.y)
                  /\ StrictlyAscending(t.x)
                  /\ {t.x[k] : k \in DOMAIN t.x}
                     = {orders_file.rows[i][by] : i \in dated}
                  /\ \A k \in DOMAIN t.x :
                        t.y[k] = QuantityOver({i \in S : orders_file.rows[i][by] = t.x[k]})
                  /\ Total(t.y) = QuantityOver(dated)

\* ------------------------------------------------------------------ C3
\* the orders table without its Romania-warehouse rows
WithoutRomania(df) ==
    IF IsNone(df) THEN df
    ELSE Where(df, [i \in DOMAIN df.rows |-> df.rows[i]["Warehouse"] # "Romania"])

\* C3: no Romania-warehouse order contributes to a bar of the UK chart: its
\* bars are the Dawson Placed and Dispatched series only, and they are the
\* bars the same query gives on the orders table without its Romania rows,
\* Romania rows destined to UK included.
C3_UKChartFreeOfRomania ==
    Rendered =>
        LET bars == BarsOf(FigOf(page, UKTitle))
            clean == MainLogic(data_store.inv, WithoutRomania(data_store.orders),
                               start_date, end_date, target_asin).page
        IN /\ \A k \in DOMAIN bars :
                 bars[k].name \in {"Order Placed (Dawson)", "Dispatched (Dawson)"}
           /\ bars = BarsOf(FigOf(clean, UKTitle))
           /\ IsGroupedSum("UK", "Order Placed (Dawson)",
                           OrdersOfWarehouse("UK", "Dawson"), "Order Date")
           /\ IsGroupedSum("UK", "Dispatched (Dawson)",
                           OrdersOfWarehouse("UK", "Dawson"), "Dispatch Date")

\* the UK chart drawn for an identifier with a dispatched Romania order
\* destined to UK beside a Dawson one
C3_Witness ==
    /\ Rendered
    /\ OrdersOfWarehouse("UK", "Romania") # {}
    /\ OrdersOfWarehouse("UK", "Dawson") # {}
    /\ \E i \in OrdersOfWarehouse("UK", "Romania") :
          orders_file.rows[i]["Dispatch Date"] # NaT
    /\ Len(BarsOf(FigOf(page, UKTitle))) = 2

\* ------------------------------------------------------------------ C7
\* the Order IDs of the target's Romania-warehouse orders
RomaniaOrderIds ==
    {orders_file.rows[i]["Order ID"] :
        i \in {j \in OrdersOfTarget : orders_file.rows[j]["Warehouse"] = "Romania"}}

\* C7: a Romania-warehouse order is shown in EU outputs only: it is in no bar
\* of the UK chart and in no row of the UK orders listing.
C7_RomaniaOnlyInEU ==
    Rendered =>
        /\ \A k \in DOMAIN BarsOf(FigOf(page, UKTitle)) :
              BarsOf(FigOf(page, UKTitle))[k].name
                  \in {"Order Placed (Dawson)", "Dispatched (Dawson)"}
        /\ HasListing(page, "col1") =>
              \A k \in DOMAIN ListingOf(page, "col1").rows :
                  ListingOf(page, "col1").rows[k]["Order ID"] \notin RomaniaOrderIds

\* ------------------------------------------------------------------ C8
NonIncreasingOrderDate(rows) ==
    \A k \in 1..(Len(rows) - 1) : rows[k]["Order Date"] >= rows[k + 1]["Order Date"]

\* every listing on the page has exactly the columns cols, in every row, and
\* its rows are in non-increasing Order Date order
ListingsHave(cols) ==
    \A c \in {"col1", "col2"} :
        HasListing(page, c) =>
            LET listing == ListingOf(page, c)
            IN /\ listing.columns = cols
               /\ \A k \in DOMAIN listing.rows : DOMAIN listing.rows[k] = cols
               /\ NonIncreasingOrderDate(listing.rows)

\* C8 as stated: the columns are {Order Date, Dispatch Date, Quantity,
\* Order ID, Warehouse, Channel Name, sku}, rows newest first.
C8_ListingColumnsWithWarehouse ==
    ListingsHave({"Order Date", "Dispatch Date", "Quantity", "Order ID",
                  "Warehouse", "Channel Name", "sku"})

\* C8 amended: the columns are {Order Date, Dispatch Date, Quantity,
\* Order ID, Channel Name, sku} (no Warehouse column), rows in
\* non-increasing Order Date order.
C8_ListingColumnsSorted ==
    ListingsHave({"Order Date", "Dispatch Date", "Quantity", "Order ID",
                  "Channel Name", "sku"})

\* a listing whose two rows stand in the reverse of their table order
C8_Witness ==
    /\ HasListing(page, "col1")
    /\ LET rows == ListingOf(page, "col1").rows
       IN /\ Len(rows) >= 2
          /\ rows[1]["Order Date"] > rows[2]["Order Date"]
          /\ rows[1]["Order ID"] > rows[2]["Order ID"]

\* ------------------------------------------------------------------ C9
\* the region's listing holds exactly the target's orders of the region placed
\* within [start_date, end_date], bounds included; there is no listing only
\* when the region has no order of the target at all
ListingIsWindow(region) ==
    LET inWindow == {i \in OrdersOfRegion(region) :
                        /\ orders_file.rows[i]["Order Date"] >= start_date
                        /\ orders_file.rows[i]["Order Date"] <= end_date}
    IN IF HasListing(page, ContainerOf(region))
       THEN LET rows == ListingOf(page, ContainerOf(region)).rows
            IN /\ {rows[k]["Order ID"] : k \in DOMAIN rows}
                  = {orders_file.rows[i]["Order ID"] : i \in inWindow}
               /\ Len(rows) = Cardinality(inWindow)
       ELSE OrdersOfRegion(region) = {}

C4_PlacedIsSumByOrderDate ==
    Rendered =>
        \A sub \in ChartedSubsets :
            IsGroupedSum(sub[1], PlacedName(sub[2]),
                         OrdersOfWarehouse(sub[1], sub[2]), "Order Date")

\* a Placed bar that adds up two orders of different quantities
C4_Witness ==
    /\ Rendered
    /\ \E sub \in ChartedSubsets :
          /\ HasTrace(FigOf(page, TitleOf(sub[1])), PlacedName(sub[2]))
          /\ \E i, j \in OrdersOfWarehouse(sub[1], sub[2]) :
                /\ i # j
                /\ orders_file.rows[i]["Order Date"] = orders_file.rows[j]["Order Date"]
                /\ orders_file.rows[i]["Quantity"] # orders_file.rows[j]["Quantity"]
          /\ TraceOf(FigOf(page, TitleOf(sub[1])), PlacedName(sub[2])).y = <<3>>

\* ------------------------------------------------------------------ C5
\* C5: for each charted warehouse subset the Dispatched series is the sum of
\* Quantity grouped by Dispatch Date over the rows with a Dispatch Date; a row
\* without one adds to no bar, and the run completes without an exception,
\* also when no row of the subset has a Dispatch Date.
C5_DispatchedSkipsNull ==
    Rendered =>
        /\ \A sub \in ChartedSubsets :
              IsGroupedSum(sub[1], DispatchedName(sub[2]),
                           OrdersOfWarehouse(sub[1], sub[2]), "Dispatch Date")
        /\ ~Shows(page, "exception")
        /\ page[Len(page)].container = "col2"

\* a subset with a dispatched and an undispatched order: the series counts
\* the dispatched one only
C5_Witness ==
    /\ Rendered
    /\ \E sub \in ChartedSubsets :
          /\ HasTrace(FigOf(page, TitleOf(sub[1])), DispatchedName(sub[2]))
          /\ \E i, j \in OrdersOfWarehouse(sub[1], sub[2]) :
                /\ orders_file.rows[i]["Dispatch Date"] = NaT
                /\ orders_file.rows[j]["Dispatch Date"] # NaT
                /\ TraceOf(FigOf(page, TitleOf(sub[1])), DispatchedName(sub[2])).y
                   = <<orders_file.rows[j]["Quantity"]>>

====
